---- MODULE Spec2Model ----
(***************************************************************************)
(* NNPACK engine operators of caffe2 (caffe2/contrib/nnpack/nnpack_ops.cc). *)
(*                                                                         *)
(* The state is the file-static thread pool handle, the two operator       *)
(* instances the file registers (Conv and MaxPool with engine NNPACK),     *)
(* their output blobs, and the position of each operator's invocation      *)
(* inside RunOnDeviceWithOrderNCHW and nnpack_threadpool().  The external  *)
(* library (nnp_initialize, pthreadpool_create, the three kernels) is      *)
(* observed through call counters and the argument records of the calls.   *)
(***************************************************************************)
EXTENDS Integers, Sequences, FiniteSets, TLC

VARIABLES
    nnpack_threadpool_,        \* the static handle; 0 is nullptr
    nnp_initialize_calls,      \* number of calls of nnp_initialize()
    pthreadpool_create_calls,  \* number of calls of pthreadpool_create()
    hw_supported,              \* whether nnp_initialize() succeeds on this host
    net_type,                  \* "simple": one invocation at a time; "dag": in parallel
    op,                        \* op[o]: the operator instance (or none / rejected)
    run,                       \* run[o]: the invocation of o in flight, or its last one
    Y                          \* Y[o]: the output blob of o

vars == <<nnpack_threadpool_, nnp_initialize_calls, pthreadpool_create_calls,
          hw_supported, net_type, op, run, Y>>

(***************************************************************************)
(* Bounds of the model.                                                    *)
(***************************************************************************)
MaxPad == 1          \* paddings range over 0..MaxPad
MaxBatch == 2        \* batch sizes range over 0..MaxBatch
MaxInitCalls == 2    \* on a host without NNPACK support, invocations stop after this many nnp_initialize calls

Ops == {"conv", "pool"}
nullptr == 0

(***************************************************************************)
(* Parameter translators.                                                  *)
(***************************************************************************)
NoArg == "<not given>"

AlgoArgs == {NoArg, "AUTO", "WINOGRAD", "FT16", "FT8", "auto", "FT32"}
KtsArgs == {NoArg, "BLOCK", "TUPLE", "tuple"}

get_nnp_convolution_algorithm_ft8_lost(algo) ==
    IF algo = "AUTO" THEN "nnp_convolution_algorithm_auto"
    ELSE IF algo = "WINOGRAD" THEN "nnp_convolution_algorithm_wt8x8"
    ELSE IF algo = "FT16" THEN "nnp_convolution_algorithm_ft16x16"
    ELSE IF algo = "FT8" THEN "nnp_convolution_algorithm_ft16x16"
    ELSE "nnp_convolution_algorithm_auto"

get_nnp_convolution_algorithm(algo) ==
    IF algo = "AUTO" THEN "nnp_convolution_algorithm_auto"
    ELSE IF algo = "WINOGRAD" THEN "nnp_convolution_algorithm_wt8x8"
    ELSE IF algo = "FT16" THEN "nnp_convolution_algorithm_ft16x16"
    ELSE IF algo = "FT8" THEN "nnp_convolution_algorithm_ft8x8"
    ELSE "nnp_convolution_algorithm_auto"

get_nnp_convolution_transform_strategy(kts) ==
    IF kts = "BLOCK" THEN "nnp_convolution_transform_strategy_block_based"
    ELSE IF kts = "TUPLE" THEN "nnp_convolution_transform_strategy_tuple_based"
    ELSE "nnp_convolution_transform_strategy_block_based"

\* OperatorBase::GetSingleArgument<std::string>(name, default)
GetSingleArgument(arg, default) == IF arg = NoArg THEN default ELSE arg

(***************************************************************************)
(* Tensors are their shapes; dim32(i) past the rank reads outside the      *)
(* shape vector, and g is the value such a read yields.                    *)
(***************************************************************************)
ndim(t) == Len(t)
dim32(t, i, g) == IF i < Len(t) THEN t[i + 1] ELSE g

GarbageDims == {1, 2, 3}

\* the values the reads of dimensions 0..3 of t can yield outside its shape
Garbage(t) == IF Len(t) < 4 THEN GarbageDims ELSE {0}

RECURSIVE Numel(_)
Numel(d) == IF Len(d) = 0 THEN 0 ELSE IF Len(d) = 1 THEN d[1] ELSE d[1] * Numel(Tail(d))

NoBlob == [dims |-> <<>>, filled |-> FALSE]

\* Tensor::Resize: a growing tensor loses its buffer
Resize(t, d) == [dims |-> d, filled |-> t.filled /\ Numel(d) <= Numel(t.dims)]

\* ConvPoolOpBase::SetOutputSize for NCHW: Y is resized to (N, channels, Hout, Wout)
SetOutputSize(cfg, X, y, output_channel) ==
    Resize(y, << X[1], output_channel,
                 ((X[3] + cfg.pad_t_ + cfg.pad_b_ - cfg.kernel_h_) \div cfg.stride_h_) + 1,
                 ((X[4] + cfg.pad_l_ + cfg.pad_r_ - cfg.kernel_w_) \div cfg.stride_w_) + 1 >>)

(***************************************************************************)
(* Operator definitions handed to the constructors.  ConvPoolOpBase reads  *)
(* order, kernel, stride and pad from the definition into its members.     *)
(***************************************************************************)
Pads == 0 .. MaxPad

BaseConvDef ==
    [algo |-> NoArg, kts |-> NoArg, order |-> "NCHW",
     kernel_h |-> 2, kernel_w |-> 3, stride_h |-> 1, stride_w |-> 1,
     pad_t |-> 0, pad_b |-> 0, pad_l |-> 0, pad_r |-> 0]

ConvDefs ==
    {[BaseConvDef EXCEPT !.pad_t = t, !.pad_b = b, !.pad_l = l, !.pad_r = r] :
        t \in Pads, b \in Pads, l \in Pads, r \in Pads}
    \cup {[BaseConvDef EXCEPT !.stride_h = sh, !.stride_w = sw] : sh \in {1, 2}, sw \in {1, 2}}
    \cup {[BaseConvDef EXCEPT !.algo = a] : a \in AlgoArgs}
    \cup {[BaseConvDef EXCEPT !.kts = k] : k \in KtsArgs}
    \cup {[BaseConvDef EXCEPT !.order = "NHWC"]}

BasePoolDef ==
    [order |-> "NCHW", kernel_h |-> 2, kernel_w |-> 2, stride_h |-> 2, stride_w |-> 2,
     pad_t |-> 0, pad_b |-> 0, pad_l |-> 0, pad_r |-> 0]

PoolDefs ==
    {[BasePoolDef EXCEPT !.pad_t = t, !.pad_b = b, !.pad_l = l, !.pad_r = r] :
        t \in Pads, b \in Pads, l \in Pads, r \in Pads}
    \cup {[BasePoolDef EXCEPT !.kernel_h = kh, !.kernel_w = kw, !.stride_h = sh, !.stride_w = sw] :
                kh \in {2, 3}, kw \in {2, 3}, sh \in {1, 2}, sw \in {1, 2}}
    \cup {[BasePoolDef EXCEPT !.order = "NHWC"]}

\* the members ConvPoolOpBase<CPUContext> sets from the definition
ConvPoolOpBase(def) ==
    [order_ |-> def.order, kernel_h_ |-> def.kernel_h, kernel_w_ |-> def.kernel_w,
     stride_h_ |-> def.stride_h, stride_w_ |-> def.stride_w,
     pad_t_ |-> def.pad_t, pad_b_ |-> def.pad_b, pad_l_ |-> def.pad_l, pad_r_ |-> def.pad_r]

NoOp == [state |-> "none"]
Rejected == [state |-> "rejected"]

\* NNPACKConvOp::NNPACKConvOp: the member initialisers
ConvMembers(def) ==
    [state |-> "ready", operator_def |-> def, base |-> ConvPoolOpBase(def),
     algo_ |-> get_nnp_convolution_algorithm(GetSingleArgument(def.algo, "AUTO")),
     kts_ |-> get_nnp_convolution_transform_strategy(GetSingleArgument(def.kts, "TUPLE"))]

\* OPERATOR_NEEDS_FEATURE of NNPACKConvOp
ConvFeatures(b) == b.order_ = "NCHW"

PoolFeatures_pad_r_unchecked(b) ==
    /\ b.order_ = "NCHW"
    /\ b.kernel_h_ = 2 /\ b.kernel_w_ = 2
    /\ b.stride_h_ = 2 /\ b.stride_w_ = 2
    /\ b.pad_t_ = 0 /\ b.pad_l_ = 0 /\ b.pad_b_ = 0

\* OPERATOR_NEEDS_FEATURE of NNPACKMaxPoolOp
PoolFeatures(b) ==
    /\ b.order_ = "NCHW"
    /\ b.kernel_h_ = 2 /\ b.kernel_w_ = 2
    /\ b.stride_h_ = 2 /\ b.stride_w_ = 2
    /\ b.pad_t_ = 0 /\ b.pad_l_ = 0 /\ b.pad_r_ = 0 /\ b.pad_b_ = 0

(***************************************************************************)
(* Inputs of the invocations.                                              *)
(***************************************************************************)
ConvX == {<<n, 2, 4, 6>> : n \in 0 .. MaxBatch} \cup {<<1, 2, 4>>, <<1, 2, 4, 6, 1>>}
ConvFilter ==
    {<<2, 2, 2, 3>>, <<1, 2, 2, 3>>, <<2, 1, 2, 3>>, <<2, 2, 3, 3>>, <<2, 2, 2, 2>>,
     <<2, 2, 2, 3, 1>>, <<>>}
\* a filter without dimension 3, which filter.dim32(3) reads all the same
ConvFilterShort == {<<2, 2, 2>>}
ConvBias == {<<2>>, <<1>>, <<2, 1>>, <<>>}

ConvInputs ==
    {[X |-> x, filter |-> <<2, 2, 2, 3>>, bias |-> <<2>>] : x \in ConvX}
    \cup {[X |-> <<2, 2, 4, 6>>, filter |-> f, bias |-> <<2>>] : f \in ConvFilter}
    \cup {[X |-> <<1, 2, 4, 6>>, filter |-> f, bias |-> b] : f \in ConvFilter, b \in ConvBias}
    \cup {[X |-> <<1, 2, 6, 6>>, filter |-> f, bias |-> <<2>>] : f \in ConvFilterShort}

PoolInputs ==
    {[X |-> x, filter |-> <<>>, bias |-> <<>>] :
        x \in {<<1, 1, 4, 6>>, <<1, 1, 3, 6>>, <<1, 1, 4, 5>>,
               <<1, 1, 4>>, <<1, 1, 4, 6, 1>>}}

NnpStatus == {"nnp_status_success", "nnp_status_failure"}

NoRun ==
    [pc |-> "idle", X |-> <<>>, filter |-> <<>>, bias |-> <<>>,
     err |-> "not run", geometry |-> <<>>, calls |-> <<>>]

\* an invocation that ended: err names the failed CAFFE_ENFORCE, or is "ok"
Ended(in, err, geometry, calls) ==
    [pc |-> "done", X |-> in.X, filter |-> in.filter, bias |-> in.bias,
     err |-> err, geometry |-> geometry, calls |-> calls]

\* an invocation that reached the call of nnpack_threadpool()
Calling(in, geometry) ==
    [pc |-> "tp_test", X |-> in.X, filter |-> in.filter, bias |-> in.bias,
     err |-> "running", geometry |-> geometry, calls |-> <<>>]

(***************************************************************************)
(* NNPACKConvOp::RunOnDeviceWithOrderNCHW, up to the kernel call.          *)
(***************************************************************************)
ConvEnforceShapes_bias_length_unchecked(X, filter, bias, cfg, g) ==
    IF ndim(X) # 4 THEN "X.ndim() == 4"
    ELSE IF ndim(filter) = 0 THEN "filter.ndim()"
    ELSE IF dim32(filter, 1, g) # dim32(X, 1, g) THEN "filter.dim32(1) == C"
    ELSE IF dim32(filter, 2, g) # cfg.kernel_h_ THEN "filter.dim32(2) == kernel_h_"
    ELSE IF dim32(filter, 3, g) # cfg.kernel_w_ THEN "filter.dim32(3) == kernel_w_"
    ELSE IF ndim(bias) # 1 THEN "bias.ndim() == 1"
    ELSE "ok"

\* the CAFFE_ENFORCEs on the shapes of X, filter and bias, in order; the
\* result names the first that fails.  CAFFE_ENFORCE(filter.ndim(), 4) tests
\* filter.ndim() for being nonzero.
ConvEnforceShapes(X, filter, bias, cfg, g) ==
    IF ndim(X) # 4 THEN "X.ndim() == 4"
    ELSE IF ndim(filter) = 0 THEN "filter.ndim()"
    ELSE IF dim32(filter, 1, g) # dim32(X, 1, g) THEN "filter.dim32(1) == C"
    ELSE IF dim32(filter, 2, g) # cfg.kernel_h_ THEN "filter.dim32(2) == kernel_h_"
    ELSE IF dim32(filter, 3, g) # cfg.kernel_w_ THEN "filter.dim32(3) == kernel_w_"
    ELSE IF ndim(bias) # 1 THEN "bias.ndim() == 1"
    ELSE IF dim32(bias, 0, g) # dim32(filter, 0, g) THEN "bias.dim32(0) == M"
    ELSE "ok"

\* if (N > 1) { CAFFE_ENFORCE(stride_h_ == 1); CAFFE_ENFORCE(stride_w_ == 1); }
ConvEnforceStride(N, cfg) ==
    IF N > 1 /\ cfg.stride_h_ # 1 THEN "stride_h_ == 1"
    ELSE IF N > 1 /\ cfg.stride_w_ # 1 THEN "stride_w_ == 1"
    ELSE "ok"

ConvGeometry_right_bottom_swapped(cfg, X, filter, y, g) ==
    LET pads == <<cfg.pad_t_, cfg.pad_b_, cfg.pad_l_, cfg.pad_r_>>
        stride == <<cfg.stride_h_, cfg.stride_w_>>
    IN  [batch_size |-> dim32(X, 0, g),
         input_channels |-> dim32(X, 1, g),
         output_channels |-> dim32(y.dims, 1, g),
         input_size |-> [width |-> dim32(X, 3, g), height |-> dim32(X, 2, g)],
         kernel_size |-> [width |-> dim32(filter, 3, g), height |-> dim32(filter, 2, g)],
         padding |-> [top |-> pads[1], right |-> pads[2], bottom |-> pads[4], left |-> pads[3]],
         output_subsample |-> [width |-> stride[2], height |-> stride[1]]]

\* the geometry descriptors built from the shapes and the members
ConvGeometry(cfg, X, filter, y, g) ==
    LET pads == <<cfg.pad_t_, cfg.pad_b_, cfg.pad_l_, cfg.pad_r_>>
        stride == <<cfg.stride_h_, cfg.stride_w_>>
    IN  [batch_size |-> dim32(X, 0, g),
         input_channels |-> dim32(X, 1, g),
         output_channels |-> dim32(y.dims, 1, g),
         input_size |-> [width |-> dim32(X, 3, g), height |-> dim32(X, 2, g)],
         kernel_size |-> [width |-> dim32(filter, 3, g), height |-> dim32(filter, 2, g)],
         padding |-> [top |-> pads[1], right |-> pads[4], bottom |-> pads[2], left |-> pads[3]],
         output_subsample |-> [width |-> stride[2], height |-> stride[1]]]

\* may an invocation of o begin: the net has constructed its operators, and
\* runs them one at a time ("simple") or on parallel workers ("dag")
CanStart(o) ==
    /\ \A other \in Ops : op[other].state # "none"
    /\ op[o].state = "ready"
    /\ run[o].pc = "idle"
    /\ net_type = "dag" \/ \A other \in Ops \ {o} : run[other].pc = "idle"
    /\ nnpack_threadpool_ # nullptr \/ nnp_initialize_calls < MaxInitCalls

ConvRunOnDevice ==
    /\ CanStart("conv")
    /\ \E in \in ConvInputs : \E g \in Garbage(in.filter) :
         LET cfg == op["conv"].base
             shapes == ConvEnforceShapes(in.X, in.filter, in.bias, cfg, g)
             y == SetOutputSize(cfg, in.X, Y["conv"], dim32(in.filter, 0, g))
             strides == ConvEnforceStride(dim32(in.X, 0, g), cfg)
         IN  IF shapes # "ok"
             THEN /\ run' = [run EXCEPT !["conv"] = Ended(in, shapes, <<>>, <<>>)]
                  /\ Y' = Y
             ELSE /\ Y' = [Y EXCEPT !["conv"] = y]
                  /\ IF strides # "ok"
                     THEN run' = [run EXCEPT !["conv"] = Ended(in, strides, <<>>, <<>>)]
                     ELSE run' = [run EXCEPT !["conv"] =
                                     Calling(in, ConvGeometry(cfg, in.X, in.filter, y, g))]
    /\ UNCHANGED <<nnpack_threadpool_, nnp_initialize_calls, pthreadpool_create_calls,
                   hw_supported, net_type, op>>

(***************************************************************************)
(* NNPACKMaxPoolOp::RunOnDeviceWithOrderNCHW, up to the kernel call.       *)
(***************************************************************************)
PoolEnforceShapes(X) ==
    IF ndim(X) # 4 THEN "X.ndim() == 4"
    ELSE IF X[3] % 2 # 0 THEN "H % 2 == 0"
    ELSE IF X[4] % 2 # 0 THEN "W % 2 == 0"
    ELSE "ok"

PoolGeometry(cfg, X) ==
    LET pads == <<cfg.pad_t_, cfg.pad_b_, cfg.pad_l_, cfg.pad_r_>>
        stride == <<cfg.stride_h_, cfg.stride_w_>>
        pooling == <<cfg.kernel_h_, cfg.kernel_w_>>
    IN  [batch_size |-> X[1],
         input_channels |-> X[2],
         input_size |-> [width |-> X[4], height |-> X[3]],
         pooling_size |-> [width |-> pooling[2], height |-> pooling[1]],
         padding |-> [top |-> pads[1], right |-> pads[4], bottom |-> pads[2], left |-> pads[3]],
         pooling_stride |-> [width |-> stride[2], height |-> stride[1]]]

PoolRunOnDevice ==
    /\ CanStart("pool")
    /\ \E in \in PoolInputs :
         LET cfg == op["pool"].base
             shapes == PoolEnforceShapes(in.X)
         IN  IF shapes # "ok"
             THEN /\ run' = [run EXCEPT !["pool"] = Ended(in, shapes, <<>>, <<>>)]
                  /\ Y' = Y
             ELSE /\ Y' = [Y EXCEPT !["pool"] = SetOutputSize(cfg, in.X, Y["pool"], in.X[2])]
                  /\ run' = [run EXCEPT !["pool"] = Calling(in, PoolGeometry(cfg, in.X))]
    /\ UNCHANGED <<nnpack_threadpool_, nnp_initialize_calls, pthreadpool_create_calls,
                   hw_supported, net_type, op>>

(***************************************************************************)
(* The constructors.  An operator whose OPERATOR_NEEDS_FEATURE fails is    *)
(* never instantiated.                                                     *)
(***************************************************************************)
NNPACKConvOp ==
    /\ op["conv"].state = "none"
    /\ \E def \in ConvDefs :
         op' = [op EXCEPT !["conv"] =
                   IF ConvFeatures(ConvPoolOpBase(def)) THEN ConvMembers(def) ELSE Rejected]
    /\ UNCHANGED <<nnpack_threadpool_, nnp_initialize_calls, pthreadpool_create_calls,
                   hw_supported, net_type, run, Y>>

NNPACKMaxPoolOp ==
    /\ op["pool"].state = "none"
    /\ \E def \in PoolDefs :
         op' = [op EXCEPT !["pool"] =
                   IF PoolFeatures(ConvPoolOpBase(def))
                   THEN [state |-> "ready", base |-> ConvPoolOpBase(def)]
                   ELSE Rejected]
    /\ UNCHANGED <<nnpack_threadpool_, nnp_initialize_calls, pthreadpool_create_calls,
                   hw_supported, net_type, run, Y>>

(***************************************************************************)
(* nnpack_threadpool(), one step per access to the static handle or call   *)
(* of the library, as made by the invocation of operator o.                *)
(***************************************************************************)
TpTest_always_null(o) ==
    /\ run[o].pc = "tp_test"
    /\ run' = [run EXCEPT ![o].pc = "tp_init"]
    /\ UNCHANGED <<nnpack_threadpool_, nnp_initialize_calls, pthreadpool_create_calls,
                   hw_supported, net_type, op, Y>>

\* if (nnpack_threadpool_ == nullptr)
TpTest(o) ==
    /\ run[o].pc = "tp_test"
    /\ run' = [run EXCEPT ![o].pc = IF nnpack_threadpool_ = nullptr THEN "tp_init" ELSE "tp_ret"]
    /\ UNCHANGED <<nnpack_threadpool_, nnp_initialize_calls, pthreadpool_create_calls,
                   hw_supported, net_type, op, Y>>

TpInit_status_ignored(o) ==
    /\ run[o].pc = "tp_init"
    /\ nnp_initialize_calls' = nnp_initialize_calls + 1
    /\ run' = [run EXCEPT ![o].pc = "tp_create"]
    /\ UNCHANGED <<nnpack_threadpool_, pthreadpool_create_calls, hw_supported, net_type, op, Y>>

\* nnp_initialize() and the CAFFE_ENFORCE on its status; the status is that
\* of the host, the same at every call
TpInit(o) ==
    /\ run[o].pc = "tp_init"
    /\ nnp_initialize_calls' = nnp_initialize_calls + 1
    /\ run' = [run EXCEPT ![o] =
                  IF hw_supported
                  THEN [@ EXCEPT !.pc = "tp_create"]
                  ELSE [@ EXCEPT !.pc = "done", !.err = "nnpack_status == nnp_status_success"]]
    /\ UNCHANGED <<nnpack_threadpool_, pthreadpool_create_calls, hw_supported, net_type, op, Y>>

\* nnpack_threadpool_ = pthreadpool_create(mkl_get_max_threads()): the k-th
\* pool created has handle k (a creation that yields no pool is not modelled)
TpCreate(o) ==
    /\ run[o].pc = "tp_create"
    /\ pthreadpool_create_calls' = pthreadpool_create_calls + 1
    /\ nnpack_threadpool_' = pthreadpool_create_calls + 1
    /\ run' = [run EXCEPT ![o].pc = "tp_ret"]
    /\ UNCHANGED <<nnp_initialize_calls, hw_supported, net_type, op, Y>>

(***************************************************************************)
(* The kernel calls: nnpack_threadpool() returns the static handle, the    *)
(* kernel runs, and its status is enforced.                                *)
(***************************************************************************)
\* if (batch_size == 1) nnp_convolution_inference(...) else nnp_convolution_output(...)
ConvDispatch(me, geom, tp) ==
    IF geom.batch_size = 1
    THEN [entry |-> "nnp_convolution_inference",
          algorithm |-> me.algo_, transform_strategy |-> me.kts_,
          input_channels |-> geom.input_channels, output_channels |-> geom.output_channels,
          input_size |-> geom.input_size, padding |-> geom.padding,
          kernel_size |-> geom.kernel_size, output_subsample |-> geom.output_subsample,
          threadpool |-> tp]
    ELSE [entry |-> "nnp_convolution_output",
          algorithm |-> me.algo_, batch_size |-> geom.batch_size,
          input_channels |-> geom.input_channels, output_channels |-> geom.output_channels,
          input_size |-> geom.input_size, padding |-> geom.padding,
          kernel_size |-> geom.kernel_size,
          threadpool |-> tp]

PoolDispatch(geom, tp) ==
    [entry |-> "nnp_max_pooling_output",
     batch_size |-> geom.batch_size, input_channels |-> geom.input_channels,
     input_size |-> geom.input_size, padding |-> geom.padding,
     pooling_size |-> geom.pooling_size, pooling_stride |-> geom.pooling_stride,
     threadpool |-> tp]

\* CAFFE_ENFORCE(nnp_status_success == status)
EnforceStatus(status) ==
    IF status = "nnp_status_success" THEN "ok" ELSE "nnp_status_success == status"

KernelCall(o, call) ==
    /\ run[o].pc = "tp_ret"
    /\ \E status \in NnpStatus :
         /\ run' = [run EXCEPT ![o] =
                       [@ EXCEPT !.pc = "done", !.err = EnforceStatus(status),
                                 !.calls = Append(@, call)]]
         /\ Y' = [Y EXCEPT ![o].filled = (status = "nnp_status_success")]
    /\ UNCHANGED <<nnpack_threadpool_, nnp_initialize_calls, pthreadpool_create_calls,
                   hw_supported, net_type, op>>

ConvKernel ==
    /\ run["conv"].pc = "tp_ret"
    /\ KernelCall("conv", ConvDispatch(op["conv"], run["conv"].geometry, nnpack_threadpool_))

PoolKernel ==
    /\ run["pool"].pc = "tp_ret"
    /\ KernelCall("pool", PoolDispatch(run["pool"].geometry, nnpack_threadpool_))

\* RunOnDeviceWithOrderNCHW returns, or its failure propagates, to the net
Return(o) ==
    /\ run[o].pc = "done"
    /\ run' = [run EXCEPT ![o] = NoRun]
    /\ UNCHANGED <<nnpack_threadpool_, nnp_initialize_calls, pthreadpool_create_calls,
                   hw_supported, net_type, op, Y>>

(***************************************************************************)
(* Specifications.                                                         *)
(***************************************************************************)
InitNet(type) ==
    /\ nnpack_threadpool_ = nullptr
    /\ nnp_initialize_calls = 0
    /\ pthreadpool_create_calls = 0
    /\ hw_supported \in BOOLEAN
    /\ net_type = type
    /\ op = [o \in Ops |-> NoOp]
    /\ run = [o \in Ops |-> NoRun]
    /\ Y = [o \in Ops |-> NoBlob]

Init == InitNet("dag")
InitSimple == InitNet("simple")

Next ==
    \/ NNPACKConvOp
    \/ NNPACKMaxPoolOp
    \/ ConvRunOnDevice
    \/ PoolRunOnDevice
    \/ \E o \in Ops : TpTest(o)
    \/ \E o \in Ops : TpInit(o)
    \/ \E o \in Ops : TpCreate(o)
    \/ ConvKernel
    \/ PoolKernel
    \/ \E o \in Ops : Return(o)

Spec == Init /\ [][Next]_vars
SpecSimple == InitSimple /\ [][Next]_vars

(***************************************************************************)
(* Properties.                                                             *)
(***************************************************************************)
\* the CAFFE_ENFORCEs of NNPACKConvOp::RunOnDeviceWithOrderNCHW that precede the kernel call
ConvPreconditionErrors ==
    {"X.ndim() == 4", "filter.ndim()", "filter.dim32(1) == C",
     "filter.dim32(2) == kernel_h_", "filter.dim32(3) == kernel_w_",
     "bias.ndim() == 1", "bias.dim32(0) == M", "stride_h_ == 1", "stride_w_ == 1"}

InPool(o) == run[o].pc \in {"tp_test", "tp_init", "tp_create", "tp_ret"}

\* C1: when invocations race on the first call of nnpack_threadpool() on a
\* host that supports NNPACK, nnp_initialize and pthreadpool_create each run
\* at most once (exactly once when the pool exists) and every kernel call
\* receives the one pool handle.
C1_InitializedOnce ==
    hw_supported =>
        /\ nnp_initialize_calls <= 1
        /\ pthreadpool_create_calls <= 1
        /\ nnpack_threadpool_ # nullptr =>
               nnp_initialize_calls = 1 /\ pthreadpool_create_calls = 1
        /\ \A o \in Ops : \A i \in DOMAIN run[o].calls :
               run[o].calls[i].threadpool = nnpack_threadpool_

\* C2: with invocations made one after another, once the handle is set no
\* step changes it, calls nnp_initialize or calls pthreadpool_create; every
\* kernel call receives that handle; at most one pool is ever created.
C2_HandleStable ==
    [][/\ nnpack_threadpool_ # nullptr =>
              /\ nnpack_threadpool_' = nnpack_threadpool_
              /\ nnp_initialize_calls' = nnp_initialize_calls
              /\ pthreadpool_create_calls' = pthreadpool_create_calls
       /\ pthreadpool_create_calls' <= 1
       /\ \A o \in Ops : \A i \in DOMAIN run'[o].calls :
              run'[o].calls[i].threadpool = nnpack_threadpool_']_vars

\* a second invocation's kernel call has been made after a first one succeeded,
\* with one initialization and one pool in all
C2_Witness ==
    /\ run["pool"].pc = "done" /\ Len(run["pool"].calls) = 1
    /\ Y["conv"].filled
    /\ nnp_initialize_calls = 1 /\ pthreadpool_create_calls = 1

\* C3: on a host where nnp_initialize does not succeed, an invocation that
\* reaches nnpack_threadpool() ends with the enforcement failure on its
\* status, no pool is created, the handle stays nullptr and no kernel is
\* called.
C3_InitFailureIsFatal ==
    /\ ~hw_supported =>
          /\ nnpack_threadpool_ = nullptr
          /\ pthreadpool_create_calls = 0
          /\ \A o \in Ops : run[o].calls = <<>> /\ run[o].pc \notin {"tp_create", "tp_ret"}
    /\ \A o \in Ops :
          run[o].err = "nnpack_status == nnp_status_success" =>
              /\ ~hw_supported
              /\ run[o].pc = "done"
              /\ run[o].calls = <<>>

C3_Witness ==
    /\ run["conv"].pc = "done"
    /\ run["conv"].err = "nnpack_status == nnp_status_success"
    /\ nnp_initialize_calls >= 1

\* the conditions C4 lists, on the shapes given to an invocation of the
\* convolution; a condition on a dimension applies when the tensor has it
ConvMustReject(r, cfg) ==
    \/ Len(r.X) # 4
    \/ Len(r.filter) >= 2 /\ Len(r.X) >= 2 /\ r.filter[2] # r.X[2]
    \/ Len(r.filter) >= 3 /\ r.filter[3] # cfg.kernel_h_
    \/ Len(r.filter) >= 4 /\ r.filter[4] # cfg.kernel_w_
    \/ Len(r.bias) # 1
    \/ Len(r.bias) >= 1 /\ Len(r.filter) >= 1 /\ r.bias[1] # r.filter[1]
    \/ Len(r.X) >= 1 /\ r.X[1] > 1 /\ (cfg.stride_h_ # 1 \/ cfg.stride_w_ # 1)

\* C4: a convolution invocation with a rank of X other than 4, a filter
\* channel count other than that of X, filter spatial sizes other than the
\* kernel's, a bias that is not a vector of filter.dim32(0) entries, or a
\* batch above 1 with a stride other than 1, ends with a precondition
\* failure and without a kernel call.
C4_ConvRejects ==
    (run["conv"].pc # "idle" /\ ConvMustReject(run["conv"], op["conv"].base)) =>
        /\ run["conv"].pc = "done"
        /\ run["conv"].err \in ConvPreconditionErrors
        /\ run["conv"].calls = <<>>

C4_Witness ==
    /\ run["conv"].pc = "done"
    /\ run["conv"].X[1] > 1
    /\ run["conv"].filter = <<2, 2, 2, 3>> /\ run["conv"].bias = <<2>>
    /\ op["conv"].base.stride_w_ = 2
    /\ run["conv"].err = "stride_w_ == 1"

\* C5: a convolution invocation whose filter has a rank other than 4 ends
\* with a precondition failure and without a kernel call.
C5_FilterRankEnforced ==
    (run["conv"].pc # "idle" /\ Len(run["conv"].filter) # 4) =>
        /\ run["conv"].pc = "done"
        /\ run["conv"].err \in ConvPreconditionErrors
        /\ run["conv"].calls = <<>>

\* C6: a convolution invocation that passed validation and obtained the pool
\* made exactly one kernel call: nnp_convolution_inference iff the batch is
\* 1, nnp_convolution_output otherwise, with the shared handle, and
\* nnp_convolution_output only with both strides 1.
C6_Dispatch ==
    (run["conv"].pc = "done"
        /\ run["conv"].err \in {"ok", "nnp_status_success == status"}) =>
        /\ Len(run["conv"].calls) = 1
        /\ (run["conv"].calls[1].entry = "nnp_convolution_inference") <=> (run["conv"].X[1] = 1)
        /\ run["conv"].calls[1].entry \in {"nnp_convolution_inference", "nnp_convolution_output"}
        /\ run["conv"].calls[1].threadpool = nnpack_threadpool_
        /\ run["conv"].calls[1].entry = "nnp_convolution_output" =>
               op["conv"].base.stride_h_ = 1 /\ op["conv"].base.stride_w_ = 1

\* C7: a max-pooling operator exists only with kernel 2x2, stride 2x2, all
\* paddings 0 and order NCHW, a rejected one never processes a tensor, and
\* nnp_max_pooling_output is reached only with X of rank 4 and even height
\* and width.
C7_PoolRejects ==
    /\ op["pool"].state = "ready" =>
          /\ op["pool"].base.order_ = "NCHW"
          /\ op["pool"].base.kernel_h_ = 2 /\ op["pool"].base.kernel_w_ = 2
          /\ op["pool"].base.stride_h_ = 2 /\ op["pool"].base.stride_w_ = 2
          /\ op["pool"].base.pad_t_ = 0 /\ op["pool"].base.pad_b_ = 0
          /\ op["pool"].base.pad_l_ = 0 /\ op["pool"].base.pad_r_ = 0
    /\ op["pool"].state # "ready" => run["pool"] = NoRun /\ Y["pool"] = NoBlob
    /\ (InPool("pool") \/ run["pool"].calls # <<>>) =>
          /\ Len(run["pool"].X) = 4
          /\ run["pool"].X[3] % 2 = 0
          /\ run["pool"].X[4] % 2 = 0
    /\ (run["pool"].pc = "done" /\ ~(Len(run["pool"].X) = 4 /\ run["pool"].X[3] % 2 = 0
                                      /\ run["pool"].X[4] % 2 = 0)) =>
          run["pool"].err \in {"X.ndim() == 4", "H % 2 == 0", "W % 2 == 0"}

C7_Witness ==
    /\ run["pool"].pc = "done"
    /\ Len(run["pool"].calls) = 1
    /\ run["pool"].calls[1].entry = "nnp_max_pooling_output"
    /\ run["pool"].err = "ok"

\* C8: every kernel call gets padding top = pad_t_, right = pad_r_,
\* bottom = pad_b_, left = pad_l_, input size height = H and width = W,
\* kernel (pooling) size height = kernel_h_ and width = kernel_w_, and,
\* where a stride is passed, height = stride_h_ and width = stride_w_.
C8_Geometry ==
    /\ \A i \in DOMAIN run["conv"].calls :
          LET c == run["conv"].calls[i]
              b == op["conv"].base
          IN  /\ c.padding = [top |-> b.pad_t_, right |-> b.pad_r_,
                              bottom |-> b.pad_b_, left |-> b.pad_l_]
              /\ c.input_size = [width |-> run["conv"].X[4], height |-> run["conv"].X[3]]
              /\ c.kernel_size = [width |-> b.kernel_w_, height |-> b.kernel_h_]
              /\ c.entry = "nnp_convolution_inference" =>
                     c.output_subsample = [width |-> b.stride_w_, height |-> b.stride_h_]
    /\ \A i \in DOMAIN run["pool"].calls :
          LET c == run["pool"].calls[i]
              b == op["pool"].base
          IN  /\ c.padding = [top |-> b.pad_t_, right |-> b.pad_r_,
                              bottom |-> b.pad_b_, left |-> b.pad_l_]
              /\ c.input_size = [width |-> run["pool"].X[4], height |-> run["pool"].X[3]]
              /\ c.pooling_size = [width |-> b.kernel_w_, height |-> b.kernel_h_]
              /\ c.pooling_stride = [width |-> b.stride_w_, height |-> b.stride_h_]

C8_Witness ==
    /\ Len(run["conv"].calls) = 1
    /\ op["conv"].base.pad_t_ = 0 /\ op["conv"].base.pad_b_ = 1
    /\ op["conv"].base.pad_l_ = 1 /\ op["conv"].base.pad_r_ = 0
    /\ run["conv"].calls[1].padding = [top |-> 0, right |-> 0, bottom |-> 1, left |-> 1]

\* C9: the constructed convolution operator holds, for the algo argument,
\* auto / wt8x8 / ft16x16 / ft8x8 for exactly "AUTO" / "WINOGRAD" / "FT16" /
\* "FT8" and auto for any other string or no argument; for the kts argument,
\* block_based / tuple_based for exactly "BLOCK" / "TUPLE", block_based for
\* any other string and tuple_based for no argument.
C9_Translators ==
    op["conv"].state = "ready" =>
        LET a == op["conv"].operator_def.algo
            k == op["conv"].operator_def.kts
        IN  /\ op["conv"].algo_ =
                   CASE a = "WINOGRAD" -> "nnp_convolution_algorithm_wt8x8"
                     [] a = "FT16" -> "nnp_convolution_algorithm_ft16x16"
                     [] a = "FT8" -> "nnp_convolution_algorithm_ft8x8"
                     [] OTHER -> "nnp_convolution_algorithm_auto"
            /\ op["conv"].kts_ =
                   CASE k = "TUPLE" \/ k = NoArg -> "nnp_convolution_transform_strategy_tuple_based"
                     [] OTHER -> "nnp_convolution_transform_strategy_block_based"

C9_Witness ==
    /\ op["conv"].state = "ready"
    /\ op["conv"].operator_def.algo = "FT8"
    /\ op["conv"].algo_ = "nnp_convolution_algorithm_ft8x8"
    /\ op["conv"].kts_ = "nnp_convolution_transform_strategy_tuple_based"

\* C10: a convolution invocation that fails a precondition check leaves the
\* output blob, its shape and its contents, as it was before the invocation.
C10_FailedRunLeavesOutput ==
    [][(run["conv"].pc = "idle" /\ run'["conv"].pc = "done"
            /\ run'["conv"].err \in ConvPreconditionErrors) =>
        Y'["conv"] = Y["conv"]]_vars

====
